---- MODULE Spec2Model ----
(***************************************************************************)
(* Model of app2.py, the Streamlit dashboard script.  Every user           *)
(* interaction re-executes the whole script top to bottom; one action of   *)
(* the model is one such pass (widget change + full re-execution).         *)
(*                                                                         *)
(* Float cells are exact rationals <<num, den>> in lowest terms; the       *)
(* missing value NaN is <<0, 0>>.  A DataFrame is a sequence of rows; a    *)
(* row is a function from column name to cell, with "idx" the index label. *)
(***************************************************************************)
EXTENDS Integers, Sequences, FiniteSets, TLC

\* Largest number of rows of a dataset file the model enumerates.
MaxRows == 3

NaN == <<0, 0>>
None == "None"

YEAR == "Year"
COUNTRY == "Country"
INDUSTRY == "Industry"
ADOPTION == "AI Adoption Rate (%)"
JOBLOSS == "Job Loss Due to AI (%)"
VOLUME == "AI-Generated Content Volume (TBs per year)"
TOOLS == "Top AI Tools Used"

IsNaN(x) == x[2] = 0

RECURSIVE GCD(_, _)
GCD(a, b) == IF b = 0 THEN a ELSE GCD(b, a % b)

\* float division n / d, kept exact
Frac(n, d) == IF d = 0 THEN NaN ELSE LET g == GCD(n, d) IN <<n \div g, d \div g>>

FracAdd(a, b) == Frac(a[1] * b[2] + b[1] * a[2], a[2] * b[2])

\* a < b on non-NaN floats
FracLess(a, b) == a[1] * b[2] < b[1] * a[2]

(***************************************************************************)
(* The dataset files.  A file holds the first n lines of Pool, n up to     *)
(* MaxRows.  The first three lines are the rows of the worked scenario     *)
(* (2020, USA, Media, 40.0), (2020, USA, Media, 60.0), (2021, UK, Retail,  *)
(* 30.0); the USA rows carry content volumes 10 and 20.                    *)
(***************************************************************************)
Line(y, c, i, a, j, v, t) ==
    (YEAR :> y) @@ (COUNTRY :> c) @@ (INDUSTRY :> i) @@ (ADOPTION :> a) @@
    (JOBLOSS :> j) @@ (VOLUME :> v) @@ (TOOLS :> t)

Pool ==
    << Line(2021, "UK",  "Retail", <<30, 1>>, <<25, 1>>, <<30, 1>>, "ChatGPT"),
       Line(2020, "USA", "Media",  <<40, 1>>, NaN,       <<10, 1>>, "Bard"),
       Line(2020, "USA", "Media",  <<60, 1>>, <<20, 1>>, <<20, 1>>, "ChatGPT"),
       Line(2021, "USA", "Retail", NaN,       <<35, 1>>, <<5, 1>>,  "Bard") >>

Min(a, b) == IF a < b THEN a ELSE b

Files == { SubSeq(Pool, 1, n) : n \in 0 .. Min(MaxRows, Len(Pool)) }

\* python's ordering of the category strings that occur in the pool
StrRank == ("Bard" :> 1) @@ ("ChatGPT" :> 2) @@ ("Media" :> 3) @@ ("None" :> 4) @@
           ("Retail" :> 5) @@ ("UK" :> 6) @@ ("USA" :> 7)

\* v1 < v2 for two cells of column col
CellLess(col, v1, v2) ==
    IF col = YEAR THEN v1 < v2 ELSE StrRank[v1] < StrRank[v2]

(***************************************************************************)
(* pandas primitives used by the script                                    *)
(***************************************************************************)
\* pd.read_csv: the lines of the file with a RangeIndex
read_csv(file) == [i \in 1 .. Len(file) |-> file[i] @@ ("idx" :> i - 1)]

\* df[col]
Column(frame, col) == [i \in 1 .. Len(frame) |-> frame[i][col]]

\* Series.unique(): distinct values in order of first appearance
RECURSIVE unique(_)
unique(series) ==
    IF Len(series) = 0 THEN << >>
    ELSE LET init == unique(SubSeq(series, 1, Len(series) - 1))
             last == series[Len(series)]
         IN IF \E i \in 1 .. Len(init) : init[i] = last THEN init ELSE Append(init, last)

\* insertion of v into an ascending sequence of cells of column col
RECURSIVE InsertAsc(_, _, _)
InsertAsc(col, s, v) ==
    IF Len(s) = 0 THEN <<v>>
    ELSE IF CellLess(col, v, Head(s)) THEN <<v>> \o s
    ELSE <<Head(s)>> \o InsertAsc(col, Tail(s), v)

\* sorted(values)
RECURSIVE sorted(_, _)
sorted(col, s) ==
    IF Len(s) = 0 THEN << >>
    ELSE InsertAsc(col, sorted(col, SubSeq(s, 1, Len(s) - 1)), s[Len(s)])

Range(s) == { s[i] : i \in 1 .. Len(s) }

\* isin that takes an empty selection to mean "no restriction"
isin_empty_all(series, values) ==
    [i \in 1 .. Len(series) |-> values = {} \/ series[i] \in values]

\* Series.isin(values): the boolean mask
isin(series, values) == [i \in 1 .. Len(series) |-> series[i] \in values]

\* mask1 & mask2
MaskAnd(m1, m2) == [i \in 1 .. Len(m1) |-> m1[i] /\ m2[i]]

\* Series == value: the boolean mask
MaskEq(series, value) == [i \in 1 .. Len(series) |-> series[i] = value]

\* df[mask]: the rows whose mask is True, in order, keeping their index label
RECURSIVE BoolIndexFrom(_, _, _)
BoolIndexFrom(frame, mask, i) ==
    IF i > Len(frame) THEN << >>
    ELSE IF mask[i] THEN <<frame[i]>> \o BoolIndexFrom(frame, mask, i + 1)
    ELSE BoolIndexFrom(frame, mask, i + 1)

BoolIndex(frame, mask) == BoolIndexFrom(frame, mask, 1)

\* running sum of the non-missing cells, left to right
RECURSIVE nansum(_)
nansum(series) ==
    IF Len(series) = 0 THEN <<0, 1>>
    ELSE LET rest == nansum(SubSeq(series, 1, Len(series) - 1))
             last == series[Len(series)]
         IN IF IsNaN(last) THEN rest ELSE FracAdd(rest, last)

\* number of non-missing cells
RECURSIVE nancount(_)
nancount(series) ==
    IF Len(series) = 0 THEN 0
    ELSE nancount(SubSeq(series, 1, Len(series) - 1)) +
         (IF IsNaN(series[Len(series)]) THEN 0 ELSE 1)

\* Series.sum(): missing cells skipped, 0 for an empty series
SeriesSum(series) == nansum(series)

\* a mean that yields 0 when there is nothing to average
SeriesMean_zero(series) ==
    LET s == nansum(series)
        n == nancount(series)
    IN IF n = 0 THEN <<0, 1>> ELSE Frac(s[1], s[2] * n)

\* a mean whose denominator counts the missing cells too
SeriesMean_len(series) ==
    LET s == nansum(series)
    IN Frac(s[1], s[2] * Len(series))

\* the first value of the group in place of its mean
SeriesMean_first(series) ==
    IF Len(series) = 0 THEN NaN ELSE series[1]

\* Series.mean(): missing cells skipped, NaN when nothing is left
SeriesMean(series) ==
    LET s == nansum(series)
        n == nancount(series)
    IN IF n = 0 THEN NaN ELSE Frac(s[1], s[2] * n)

\* Series.nunique()
nunique(series) == Len(unique(series))

\* the group key of a row: its cells in the columns of by
Key(row, by) == [i \in 1 .. Len(by) |-> row[by[i]]]

\* k1 < k2, column by column
KeyLess(by, k1, k2) ==
    \E i \in 1 .. Len(by) :
        /\ \A j \in 1 .. i - 1 : k1[j] = k2[j]
        /\ CellLess(by[i], k1[i], k2[i])

RECURSIVE InsertKey(_, _, _)
InsertKey(by, s, k) ==
    IF Len(s) = 0 THEN <<k>>
    ELSE IF KeyLess(by, k, Head(s)) THEN <<k>> \o s
    ELSE <<Head(s)>> \o InsertKey(by, Tail(s), k)

RECURSIVE SortKeys(_, _)
SortKeys(by, s) ==
    IF Len(s) = 0 THEN << >>
    ELSE InsertKey(by, SortKeys(by, SubSeq(s, 1, Len(s) - 1)), s[Len(s)])

\* the key columns of an output row after reset_index()
KeyCols(by, k) == [c \in Range(by) |-> k[CHOOSE i \in 1 .. Len(by) : by[i] = c]]

\* df.groupby(by)[col].mean().reset_index(): one row per group key that
\* occurs, sorted by key (sort=True), holding the mean of the group's cells
groupby_mean(frame, by, col) ==
    LET ks == SubSeq([i \in 1 .. Len(frame) |-> Key(frame[i], by)], 1, Len(frame))
        keys == SortKeys(by, unique(ks))
        cells == Column(frame, col)
    IN [g \in 1 .. Len(keys) |->
            KeyCols(by, keys[g]) @@
            (col :> SeriesMean(BoolIndex(cells, MaskEq(ks, keys[g]))))]

\* x is placed before e by a descending sort; missing values go last
Precedes(x, e) == ~IsNaN(x) /\ (IsNaN(e) \/ FracLess(e, x))

RECURSIVE InsertDesc(_, _, _)
InsertDesc(col, s, r) ==
    IF Len(s) = 0 THEN <<r>>
    ELSE IF Precedes(r[col], Head(s)[col]) THEN <<r>> \o s
    ELSE <<Head(s)>> \o InsertDesc(col, Tail(s), r)

\* the aggregation handed over as grouped, without the sort
sort_values_none(frame, col) == frame

\* frame.sort_values(col, ascending=False)
RECURSIVE sort_values(_, _)
sort_values(frame, col) ==
    IF Len(frame) = 0 THEN << >>
    ELSE InsertDesc(col, sort_values(SubSeq(frame, 1, Len(frame) - 1), col),
                    frame[Len(frame)])

\* number of cells of a series equal to v
RECURSIVE CountOf(_, _)
CountOf(series, v) ==
    IF Len(series) = 0 THEN 0
    ELSE CountOf(SubSeq(series, 1, Len(series) - 1), v) +
         (IF series[Len(series)] = v THEN 1 ELSE 0)

RECURSIVE InsertCount(_, _)
InsertCount(s, r) ==
    IF Len(s) = 0 THEN <<r>>
    ELSE IF r["Count"] > Head(s)["Count"] THEN <<r>> \o s
    ELSE <<Head(s)>> \o InsertCount(Tail(s), r)

RECURSIVE SortCounts(_)
SortCounts(s) ==
    IF Len(s) = 0 THEN << >>
    ELSE InsertCount(SortCounts(SubSeq(s, 1, Len(s) - 1)), s[Len(s)])

\* series.value_counts().reset_index() with columns ['Tool', 'Count']:
\* one row per distinct value, most frequent first
value_counts(series) ==
    LET vals == unique(series)
    IN SortCounts([i \in 1 .. Len(vals) |->
                      ("Tool" :> vals[i]) @@ ("Count" :> CountOf(series, vals[i]))])

\* [(row['Tool'], row['Count']) for _, row in tool_counts.iterrows()]
data_pairs(counts) == [i \in 1 .. Len(counts) |-> <<counts[i]["Tool"], counts[i]["Count"]>>]

\* f"{x:.1f}" (scale 10) and f"{x:,.0f}" (scale 1): the nearest multiple of
\* 1/scale, ties to even, as a count of such units; "nan" for NaN
FormatFixed(x, scale) ==
    IF IsNaN(x) THEN <<"nan", 0>>
    ELSE LET n == scale * x[1]
             q == n \div x[2]
             r == n % x[2]
         IN <<"num", IF 2 * r < x[2] THEN q
                     ELSE IF 2 * r > x[2] THEN q + 1
                     ELSE IF q % 2 = 0 THEN q ELSE q + 1>>

(***************************************************************************)
(* Streamlit primitives used by the script                                 *)
(***************************************************************************)
\* a widget that has not been rendered in this session yet
Fresh == [set |-> FALSE, opts |-> << >>, val |-> None]
FreshMulti == [set |-> FALSE, val |-> {}]

NoSession ==
    [years |-> FreshMulti, countries |-> FreshMulti,
     industries_multiselect |-> FreshMulti, industries |-> FreshMulti,
     metric_country |-> Fresh, metric_industry |-> Fresh, metric_time |-> Fresh,
     group_by |-> Fresh, tool_industry |-> Fresh, tool_country |-> Fresh]

\* a multiselect that starts empty instead of at its default
multiselect_no_default(state, options, default) ==
    IF state.set THEN state.val ELSE {}

\* st.multiselect(label, options, default): the stored selection, or the
\* default on the first pass of a session
multiselect(state, options, default) ==
    IF state.set THEN state.val ELSE Range(default)

\* st.selectbox(label, options) / st.radio(label, options): the stored choice
\* while the options are the ones it was made from; otherwise the first
\* option, or None when there is no option
selectbox(state, options) ==
    IF state.set /\ state.opts = options THEN state.val
    ELSE IF Len(options) = 0 THEN None
    ELSE options[1]

\* the metric select boxes (the two modelled metric columns)
MetricOptions == <<ADOPTION, JOBLOSS>>
GroupByOptions == <<COUNTRY, INDUSTRY>>

\* load_data() without the cache decorator: the file is read on every pass
load_data_uncached(file, store, count) ==
    IF ~file.exists THEN [ok |-> FALSE, value |-> << >>, cache |-> store, reads |-> count]
    ELSE [ok |-> TRUE, value |-> read_csv(file.lines),
          cache |-> [hit |-> TRUE, value |-> read_csv(file.lines)],
          reads |-> count + 1]

\* @st.cache_data load_data(): read the file on a miss and keep the result
load_data(file, store, count) ==
    IF store.hit THEN [ok |-> TRUE, value |-> store.value, cache |-> store, reads |-> count]
    ELSE IF ~file.exists THEN [ok |-> FALSE, value |-> << >>, cache |-> store, reads |-> count]
    ELSE [ok |-> TRUE, value |-> read_csv(file.lines),
          cache |-> [hit |-> TRUE, value |-> read_csv(file.lines)],
          reads |-> count + 1]

\* the value of the first industry control reaching the filter
selected_industries_first(first, second) == first

\* the two assignments of selected_industries: the later one stands
selected_industries_of(first, second) == second

\* the three masks combined with | in place of &
apply_filters_any(frame, ys, cs, is) ==
    BoolIndex(frame,
              [i \in 1 .. Len(frame) |->
                  \/ isin(Column(frame, YEAR), ys)[i]
                  \/ isin(Column(frame, COUNTRY), cs)[i]
                  \/ isin(Column(frame, INDUSTRY), is)[i]])

\* df[isin(years) & isin(countries) & isin(industries)]
apply_filters(frame, ys, cs, is) ==
    BoolIndex(frame,
              MaskAnd(MaskAnd(isin(Column(frame, YEAR), ys),
                              isin(Column(frame, COUNTRY), cs)),
                      isin(Column(frame, INDUSTRY), is)))

\* the KPI values of tab1
kpi_of(view) ==
    [avg_adoption |-> SeriesMean(Column(view, ADOPTION)),
     avg_job_loss |-> SeriesMean(Column(view, JOBLOSS)),
     total_content |-> SeriesSum(Column(view, VOLUME)),
     num_countries |-> nunique(Column(view, COUNTRY)),
     num_industries |-> nunique(Column(view, INDUSTRY))]

\* the st.metric displays of tab1
metrics_of(k) ==
    [avg_adoption |-> FormatFixed(k.avg_adoption, 10),
     avg_job_loss |-> FormatFixed(k.avg_job_loss, 10),
     total_content |-> FormatFixed(k.total_content, 1),
     num_countries |-> k.num_countries,
     num_industries |-> k.num_industries]

\* the tool drill-down of tab5: value counts of the rows whose column col
\* equals the select box's choice
drill_down(view, col, choice) ==
    data_pairs(value_counts(Column(BoolIndex(view, MaskEq(Column(view, col), choice)), TOOLS)))

NoCharts ==
    [choropleth |-> << >>, content_volume_bar |-> << >>, country_bar |-> << >>,
     industry_bar |-> << >>, country_line |-> << >>, industry_line |-> << >>,
     time_line |-> << >>, tools_bar |-> << >>]

\* what a pass leaves behind when load_data() raises: nothing is rendered
Failed(ld, s) ==
    [cache |-> ld.cache, reads |-> ld.reads, session |-> s, status |-> "error",
     df |-> << >>, selected_years |-> {}, selected_countries |-> {},
     selected_industries |-> {}, filtered_df |-> << >>,
     kpi |-> kpi_of(<< >>), metrics |-> metrics_of(kpi_of(<< >>)),
     country_means |-> << >>, content_volume |-> << >>, country_metric |-> << >>,
     industry_metric |-> << >>, country_trend |-> << >>, industry_trend |-> << >>,
     time_trend |-> << >>, tool_counts |-> << >>,
     selected_industry |-> None, industry_data |-> << >>,
     selected_country |-> None, country_data |-> << >>,
     charts |-> NoCharts]

\* one execution of the script from top to bottom, with session state s
Script(file, store, count, s) ==
    LET ld == load_data(file, store, count)
    IN IF ~ld.ok THEN Failed(ld, s)
       ELSE
       LET frame == ld.value
           years == sorted(YEAR, unique(Column(frame, YEAR)))
           countries == sorted(COUNTRY, unique(Column(frame, COUNTRY)))
           industries == sorted(INDUSTRY, unique(Column(frame, INDUSTRY)))
           sel_years == multiselect(s.years, years, years)
           sel_countries == multiselect(s.countries, countries, countries)
           sel_first == multiselect(s.industries_multiselect, industries, industries)
           sel_second == multiselect(s.industries, industries, industries)
           sel_industries == selected_industries_of(sel_first, sel_second)
           view == apply_filters(frame, sel_years, sel_countries, sel_industries)
           k == kpi_of(view)
           c_means == groupby_mean(view, <<COUNTRY>>, ADOPTION)
           c_volume == groupby_mean(view, <<COUNTRY>>, VOLUME)
           m_country == selectbox(s.metric_country, MetricOptions)
           c_metric == groupby_mean(view, <<COUNTRY>>, m_country)
           m_industry == selectbox(s.metric_industry, MetricOptions)
           i_metric == groupby_mean(view, <<INDUSTRY>>, m_industry)
           c_trend == groupby_mean(view, <<YEAR, COUNTRY>>, ADOPTION)
           i_trend == groupby_mean(view, <<YEAR, INDUSTRY>>, ADOPTION)
           m_time == selectbox(s.metric_time, MetricOptions)
           g_by == selectbox(s.group_by, GroupByOptions)
           t_trend == groupby_mean(view, <<YEAR, g_by>>, m_time)
           t_counts == value_counts(Column(view, TOOLS))
           opt_industry == unique(Column(view, INDUSTRY))
           s_industry == selectbox(s.tool_industry, opt_industry)
           opt_country == unique(Column(view, COUNTRY))
           s_country == selectbox(s.tool_country, opt_country)
       IN [cache |-> ld.cache, reads |-> ld.reads,
           session |->
               [years |-> [set |-> TRUE, val |-> sel_years],
                countries |-> [set |-> TRUE, val |-> sel_countries],
                industries_multiselect |-> [set |-> TRUE, val |-> sel_first],
                industries |-> [set |-> TRUE, val |-> sel_second],
                metric_country |-> [set |-> TRUE, opts |-> MetricOptions, val |-> m_country],
                metric_industry |-> [set |-> TRUE, opts |-> MetricOptions, val |-> m_industry],
                metric_time |-> [set |-> TRUE, opts |-> MetricOptions, val |-> m_time],
                group_by |-> [set |-> TRUE, opts |-> GroupByOptions, val |-> g_by],
                tool_industry |-> [set |-> TRUE, opts |-> opt_industry, val |-> s_industry],
                tool_country |-> [set |-> TRUE, opts |-> opt_country, val |-> s_country]],
           status |-> "ok",
           df |-> frame,
           selected_years |-> sel_years, selected_countries |-> sel_countries,
           selected_industries |-> sel_industries,
           filtered_df |-> view,
           kpi |-> k, metrics |-> metrics_of(k),
           country_means |-> c_means, content_volume |-> c_volume,
           country_metric |-> c_metric, industry_metric |-> i_metric,
           country_trend |-> c_trend, industry_trend |-> i_trend,
           time_trend |-> t_trend, tool_counts |-> t_counts,
           selected_industry |-> s_industry,
           industry_data |-> drill_down(view, INDUSTRY, s_industry),
           selected_country |-> s_country,
           country_data |-> drill_down(view, COUNTRY, s_country),
           charts |->
               [choropleth |-> c_means,
                content_volume_bar |-> sort_values(c_volume, VOLUME),
                country_bar |-> sort_values(c_metric, m_country),
                industry_bar |-> sort_values(i_metric, m_industry),
                country_line |-> c_trend, industry_line |-> i_trend,
                time_line |-> t_trend, tools_bar |-> t_counts]]

(***************************************************************************)
(* State                                                                   *)
(***************************************************************************)
VARIABLES
    disk,       \* the dataset file: [exists, lines]
    cache,      \* the st.cache_data entry of load_data(): [hit, value]
    reads,      \* number of completed pd.read_csv calls
    session,    \* the widget state of the current browser session
    out         \* what the last pass of the script computed and rendered

vars == <<disk, cache, reads, session, out>>

\* the script's variables after the last pass
df == out.df
selected_years == out.selected_years
selected_countries == out.selected_countries
selected_industries == out.selected_industries
filtered_df == out.filtered_df
status == out.status

NoFile == [exists |-> FALSE, lines |-> << >>]

Init ==
    /\ disk \in { [exists |-> TRUE, lines |-> f] : f \in Files } \cup {NoFile}
    /\ cache = [hit |-> FALSE, value |-> << >>]
    /\ reads = 0
    /\ session = NoSession
    /\ out = [Failed([cache |-> cache, reads |-> 0], NoSession) EXCEPT !.status = "none"]

\* a full pass of the script with session state s
Pass(s) ==
    /\ out' = Script(disk, cache, reads, s)
    /\ cache' = out'.cache
    /\ reads' = out'.reads
    /\ session' = out'.session
    /\ UNCHANGED disk

\* a browser opens the page: a new session without widget state
OpenSession == Pass(NoSession)

Rendered == status = "ok"

Options(col) == Range(Column(df, col))

\* a control reruns the script when its value changes
ChangeYears ==
    /\ Rendered
    /\ \E S \in SUBSET Options(YEAR) :
          /\ S # session.years.val
          /\ Pass([session EXCEPT !.years = [set |-> TRUE, val |-> S]])

ChangeCountries ==
    /\ Rendered
    /\ \E S \in SUBSET Options(COUNTRY) :
          /\ S # session.countries.val
          /\ Pass([session EXCEPT !.countries = [set |-> TRUE, val |-> S]])

\* the first "Select Industries" control, key="industries_multiselect"
ChangeIndustriesKeyed ==
    /\ Rendered
    /\ \E S \in SUBSET Options(INDUSTRY) :
          /\ S # session.industries_multiselect.val
          /\ Pass([session EXCEPT !.industries_multiselect = [set |-> TRUE, val |-> S]])

\* the second "Select Industries" control
ChangeIndustries ==
    /\ Rendered
    /\ \E S \in SUBSET Options(INDUSTRY) :
          /\ S # session.industries.val
          /\ Pass([session EXCEPT !.industries = [set |-> TRUE, val |-> S]])

SelectCountryMetric ==
    /\ Rendered
    /\ \E m \in Range(MetricOptions) :
          /\ m # session.metric_country.val
          /\ Pass([session EXCEPT !.metric_country.val = m])

SelectIndustryMetric ==
    /\ Rendered
    /\ \E m \in Range(MetricOptions) :
          /\ m # session.metric_industry.val
          /\ Pass([session EXCEPT !.metric_industry.val = m])

SelectTimeMetric ==
    /\ Rendered
    /\ \E m \in Range(MetricOptions) :
          /\ m # session.metric_time.val
          /\ Pass([session EXCEPT !.metric_time.val = m])

SelectGroupBy ==
    /\ Rendered
    /\ \E g \in Range(GroupByOptions) :
          /\ g # session.group_by.val
          /\ Pass([session EXCEPT !.group_by.val = g])

SelectToolIndustry ==
    /\ Rendered
    /\ \E x \in Range(session.tool_industry.opts) :
          /\ x # session.tool_industry.val
          /\ Pass([session EXCEPT !.tool_industry.val = x])

SelectToolCountry ==
    /\ Rendered
    /\ \E x \in Range(session.tool_country.opts) :
          /\ x # session.tool_country.val
          /\ Pass([session EXCEPT !.tool_country.val = x])

Next ==
    \/ OpenSession
    \/ ChangeYears
    \/ ChangeCountries
    \/ ChangeIndustriesKeyed
    \/ ChangeIndustries
    \/ SelectCountryMetric
    \/ SelectIndustryMetric
    \/ SelectTimeMetric
    \/ SelectGroupBy
    \/ SelectToolIndustry
    \/ SelectToolCountry

Spec == Init /\ [][Next]_vars

(***************************************************************************)
(* Properties                                                              *)
(***************************************************************************)
\* no pass of the script has rendered the controls of this session yet
FirstPassPending == ~session.years.set

\* the current values of the filter controls that feed the filter
CurYears == session.years.val
CurCountries == session.countries.val
CurIndustries == session.industries.val

\* the rows of the dataset that satisfy all three membership predicates
Matching ==
    { df[j] : j \in { k \in 1 .. Len(df) :
                        /\ df[k][YEAR] \in CurYears
                        /\ df[k][COUNTRY] \in CurCountries
                        /\ df[k][INDUSTRY] \in CurIndustries } }

\* C1: after any sequence of filter changes the FilteredView holds exactly
\* the records of the dataset whose Year, Country and Industry are all in the
\* current selections: nothing else, nothing missing, nothing twice, whatever
\* was selected before.
C1_FilteredViewIsSelection ==
    Rendered =>
        /\ Range(filtered_df) \subseteq Range(df)
        /\ \A i \in 1 .. Len(filtered_df) :
              /\ filtered_df[i][YEAR] \in CurYears
              /\ filtered_df[i][COUNTRY] \in CurCountries
              /\ filtered_df[i][INDUSTRY] \in CurIndustries
        /\ Range(filtered_df) = Matching
        /\ Len(filtered_df) = Cardinality(Matching)

\* C1 witness: a changed year selection has cut the three-row dataset down
\* to two rows
C1_Witness ==
    /\ Rendered
    /\ Len(df) = 3
    /\ CurYears = {2020}
    /\ Len(filtered_df) = 2

\* C3: when any one of the three selections is empty the FilteredView is
\* empty, whatever the other two are, and the pass has not failed.
C3_EmptySelectionEmptyView ==
    (Rendered /\ (CurYears = {} \/ CurCountries = {} \/ CurIndustries = {})) =>
        (filtered_df = << >> /\ status = "ok")

\* C3 witness: only the country selection is empty, over a non-empty dataset
C3_Witness ==
    /\ Rendered
    /\ Len(df) = 3
    /\ CurCountries = {}
    /\ CurYears = Options(YEAR)
    /\ CurIndustries = Options(INDUSTRY)
    /\ filtered_df = << >>

\* C5: with the three selections equal to the full sets of distinct values
\* the FilteredView is the whole dataset, and the first pass of the script
\* (before any interaction, every control at its default) shows the whole
\* dataset.
C5_FullSelectionIsIdentity ==
    /\ [](( /\ Rendered
            /\ CurYears = Options(YEAR)
            /\ CurCountries = Options(COUNTRY)
            /\ CurIndustries = Options(INDUSTRY) ) => filtered_df = df)
    /\ [][FirstPassPending => (out'.status = "ok" => out'.filtered_df = out'.df)]_vars

\* C5 witness: the three-row dataset shown whole under full selections
C5_Witness ==
    /\ Rendered
    /\ Len(df) = 3
    /\ CurYears = Options(YEAR)
    /\ CurCountries = Options(COUNTRY)
    /\ CurIndustries = Options(INDUSTRY)
    /\ Len(filtered_df) = 3

\* C8: the file is read at most once, the cached dataset never changes once
\* it is there, and every pass after the first sees the same records.
C8_LoadedOnceNeverChanged ==
    [][ /\ reads' <= 1
        /\ cache.hit => cache' = cache
        /\ Rendered => (out'.status = "ok" /\ out'.df = df) ]_vars

\* C8 witness: the dataset was read once and a later pass has filtered it
C8_Witness ==
    /\ Rendered
    /\ reads = 1
    /\ cache.hit
    /\ Len(df) = 3
    /\ Len(filtered_df) = 1

\* everything a pass computes and renders (all but the widget state itself)
Outputs(r) == [r EXCEPT !.session = NoSession]

\* C10: the first industry control (key "industries_multiselect") has no
\* effect: a pass with any other value of that control, everything else
\* equal, computes the same FilteredView and the same aggregations.
C10_FirstIndustryControlIgnored ==
    Rendered =>
        \A S \in SUBSET Options(INDUSTRY) :
            Outputs(Script(disk, cache, reads,
                           [session EXCEPT !.industries_multiselect.val = S]))
                = Outputs(out)

\* C10 witness: the first control is empty, the second is full, and the view
\* is the whole three-row dataset
C10_Witness ==
    /\ Rendered
    /\ Len(df) = 3
    /\ session.industries_multiselect.val = {}
    /\ CurIndustries = Options(INDUSTRY)
    /\ Len(filtered_df) = 3

\* the group-by mean tables of the last pass, each with its key columns and
\* its value column
MeanTables ==
    << [t |-> out.country_means, by |-> <<COUNTRY>>, col |-> ADOPTION],
       [t |-> out.content_volume, by |-> <<COUNTRY>>, col |-> VOLUME],
       [t |-> out.country_metric, by |-> <<COUNTRY>>, col |-> session.metric_country.val],
       [t |-> out.industry_metric, by |-> <<INDUSTRY>>, col |-> session.metric_industry.val],
       [t |-> out.country_trend, by |-> <<YEAR, COUNTRY>>, col |-> ADOPTION],
       [t |-> out.industry_trend, by |-> <<YEAR, INDUSTRY>>, col |-> ADOPTION],
       [t |-> out.time_trend, by |-> <<YEAR, session.group_by.val>>,
        col |-> session.metric_time.val] >>

\* the group keys that occur in the FilteredView
ViewKeys(by) == { Key(filtered_df[i], by) : i \in 1 .. Len(filtered_df) }

\* the positions of the FilteredView rows of group k
Members(by, k) == { i \in 1 .. Len(filtered_df) : Key(filtered_df[i], by) = k }

\* exact sum of the cells of column col at the positions I of the FilteredView
RECURSIVE SumCells(_, _)
SumCells(I, col) ==
    IF I = {} THEN <<0, 1>>
    ELSE LET i == CHOOSE x \in I : TRUE
         IN FracAdd(filtered_df[i][col], SumCells(I \ {i}, col))

\* C2: the content-volume-by-country aggregation gives each country the sum
\* of the volumes of its rows in the FilteredView (two USA rows valued 10 and
\* 20 give (USA, 30)).
C2_ContentVolumeIsSum ==
    Rendered =>
        \A g \in 1 .. Len(out.content_volume) :
            out.content_volume[g][VOLUME] =
                SumCells(Members(<<COUNTRY>>, <<out.content_volume[g][COUNTRY]>>), VOLUME)

\* C4: when the FilteredView is empty the pass completes: the KPI means are
\* NaN and display as such, every group-by aggregation is empty, both tool
\* select boxes have no choice and both drill-downs give empty tool counts.
C4_EmptyViewDegrades ==
    (Rendered /\ filtered_df = << >>) =>
        /\ status = "ok"
        /\ IsNaN(out.kpi.avg_adoption) /\ IsNaN(out.kpi.avg_job_loss)
        /\ out.metrics.avg_adoption[1] = "nan" /\ out.metrics.avg_job_loss[1] = "nan"
        /\ \A m \in 1 .. Len(MeanTables) : MeanTables[m].t = << >>
        /\ out.tool_counts = << >>
        /\ out.selected_industry = None /\ out.industry_data = << >>
        /\ out.selected_country = None /\ out.country_data = << >>

\* C4 witness: a non-empty dataset filtered down to nothing, after the tool
\* select boxes had options
C4_Witness ==
    /\ Rendered
    /\ Len(df) = 3
    /\ CurYears = {}
    /\ filtered_df = << >>
    /\ out.selected_country = None

\* C6: every group-by mean has exactly one pair per group key that occurs in
\* the FilteredView and none for any other key; a pair's value is the sum of
\* the group's non-missing values divided by their count (NaN when there is
\* none), so a single-row group yields that row's value exactly.
C6_GroupMeans ==
    Rendered =>
        \A m \in 1 .. Len(MeanTables) :
            LET T == MeanTables[m].t
                by == MeanTables[m].by
                col == MeanTables[m].col
            IN /\ { Key(T[g], by) : g \in 1 .. Len(T) } = ViewKeys(by)
               /\ Len(T) = Cardinality(ViewKeys(by))
               /\ \A g \in 1 .. Len(T) :
                     LET all == Members(by, Key(T[g], by))
                         I == { i \in all : ~IsNaN(filtered_df[i][col]) }
                         sum == SumCells(I, col)
                         v == T[g][col]
                     IN /\ IF I = {} THEN IsNaN(v)
                           ELSE /\ ~IsNaN(v)
                                /\ v[1] * sum[2] * Cardinality(I) = sum[1] * v[2]
                        /\ Cardinality(all) = 1 =>
                              \A i \in all : v = filtered_df[i][col]

\* C6 witness: the scenario rows 40.0 and 60.0 average to 50.0 for USA, UK is
\* a single-row group, and the country comparison skips a missing value
C6_Witness ==
    /\ Rendered
    /\ Len(filtered_df) = 3
    /\ \E g \in 1 .. Len(out.country_means) :
          /\ out.country_means[g][COUNTRY] = "USA"
          /\ out.country_means[g][ADOPTION] = <<50, 1>>
    /\ \E g \in 1 .. Len(out.country_means) :
          /\ out.country_means[g][COUNTRY] = "UK"
          /\ out.country_means[g][ADOPTION] = <<30, 1>>
    /\ session.metric_country.val = JOBLOSS
    /\ \E g \in 1 .. Len(out.country_metric) :
          /\ out.country_metric[g][COUNTRY] = "USA"
          /\ out.country_metric[g][JOBLOSS] = <<20, 1>>

\* T is in descending order of column col, groups without a value last
Descending(T, col) ==
    \A i, j \in 1 .. Len(T) :
        i < j => \/ IsNaN(T[j][col])
                 \/ (~IsNaN(T[i][col]) /\ ~FracLess(T[i][col], T[j][col]))

SameRows(A, B) == Len(A) = Len(B) /\ Range(A) = Range(B)

YearAscending(T) == \A i, j \in 1 .. Len(T) : i < j => T[i][YEAR] <= T[j][YEAR]

\* C7: the three ranking bars receive their aggregation sorted in descending
\* order of the aggregate value, and the three trend lines receive theirs in
\* ascending order of Year.
C7_ChartOrder ==
    Rendered =>
        /\ SameRows(out.charts.country_bar, out.country_metric)
        /\ Descending(out.charts.country_bar, session.metric_country.val)
        /\ SameRows(out.charts.industry_bar, out.industry_metric)
        /\ Descending(out.charts.industry_bar, session.metric_industry.val)
        /\ SameRows(out.charts.content_volume_bar, out.content_volume)
        /\ Descending(out.charts.content_volume_bar, VOLUME)
        /\ out.charts.country_line = out.country_trend
        /\ YearAscending(out.charts.country_line)
        /\ out.charts.industry_line = out.industry_trend
        /\ YearAscending(out.charts.industry_line)
        /\ out.charts.time_line = out.time_trend
        /\ YearAscending(out.charts.time_line)

\* C7 witness: the country bar was reordered by the sort, and the trend has
\* two years although the later year comes first in the file
C7_Witness ==
    /\ Rendered
    /\ Len(out.charts.country_bar) = 2
    /\ out.charts.country_bar # out.country_metric
    /\ filtered_df[1][YEAR] = 2021
    /\ Len(out.country_trend) = 2
    /\ out.country_trend[1][YEAR] = 2020

\* the FilteredView with its rows in the order p
Permuted(p) == [i \in 1 .. Len(filtered_df) |-> filtered_df[p[i]]]

====
